---- MODULE Spec2Model ----
(***************************************************************************)
(* Data migration of the memora backend: export_data and import_data of    *)
(* backend/routers/migration.py over the tables of backend/model.py.       *)
(*                                                                         *)
(* The datastore is a record of tables; a table is a function from the     *)
(* primary keys present to rows.  A document is the JSON body: a function  *)
(* from the top-level keys present to sequences of records, a record being *)
(* a function from the keys present to JSON values, so that d["k"] (a      *)
(* KeyError when k is absent) and d.get("k") are both expressible.         *)
(*                                                                         *)
(* JSON has no datetime: a timestamp in a document is null or the string   *)
(* isoformat() produced.  The DateTime columns of model.py accept datetime *)
(* objects only; import_data hands the document's value to the statement   *)
(* unparsed.                                                               *)
(***************************************************************************)
EXTENDS Integers, Sequences, FiniteSets, TLC

VARIABLES store, before, req, clock, fkEnforced, txn, conc, files, att

vars == <<store, before, req, clock, fkEnforced, txn, conc, files, att>>

(* ---------------------------------------------------------------------- *)
(* Bounds                                                                 *)
(* ---------------------------------------------------------------------- *)
MaxDocRecs == 2     \* records in one generated import document
MaxTxnRecs == 2     \* records in the document of an import followed statement by statement
MaxImports == 3     \* imports in a row
MaxConcRecs == 1    \* records in the document of each of two concurrent imports
MaxCalls == 2

(* ---------------------------------------------------------------------- *)
(* Values                                                                 *)
(* ---------------------------------------------------------------------- *)
NULL == "NULL"                             \* None / SQL NULL / JSON null
JsonNull == [tag |-> "null", t |-> 0]      \* a JSON null where a timestamp is expected
IsoFormat(t) == [tag |-> "str", t |-> t]   \* datetime.isoformat(): a string

AssetType == {"post", "comment"}

Has(d, k) == k \in DOMAIN d
Get(d, k, dflt) == IF k \in DOMAIN d THEN d[k] ELSE dflt
HasAll(d, ks) == \A k \in ks : k \in DOMAIN d

(* The SQLite DateTime type binds datetime objects and None; anything     *)
(* else (a str) raises TypeError when the statement is executed.          *)
BindDateTimeOk(v) == v.tag \in {"null", "datetime"}
BoundIsNull(v) == v.tag = "null"

(* ---------------------------------------------------------------------- *)
(* Tables                                                                 *)
(* ---------------------------------------------------------------------- *)
TableNames ==
  {"users", "categories", "collections", "collection_details",
   "attachments", "posts", "comments", "likes"}

Put(db, tbl, id, row) ==
  [db EXCEPT ![tbl] = [k \in (DOMAIN db[tbl]) \cup {id} |->
                         IF k = id THEN row ELSE db[tbl][k]]]

Ok(db) == [ok |-> TRUE, db |-> db]
Fail(db) == [ok |-> FALSE, db |-> db]

(* uq_users_username, uq_users_email *)
UsersUnique(t) ==
  \A a, b \in DOMAIN t :
     a # b => t[a].username # t[b].username /\ t[a].email # t[b].email

(* uq_categories_user_name *)
CategoriesUnique(t) ==
  \A a, b \in DOMAIN t :
     a # b => ~(t[a].user_id = t[b].user_id /\ t[a].name = t[b].name)

(* uq_collection_details_collection_key *)
DetailsUnique(t) ==
  \A a, b \in DOMAIN t :
     a # b => ~(t[a].collection_id = t[b].collection_id /\ t[a].key = t[b].key)

(* uq_likes_user_asset *)
LikesUnique(t) ==
  \A a, b \in DOMAIN t :
     a # b => ~(t[a].user_id = t[b].user_id /\ t[a].asset_id = t[b].asset_id
                /\ t[a].asset_type = t[b].asset_type)

(* ForeignKey(...): checked only when the connection enforces them *)
FkOk(fk, db, tbl, key) == (~fk) \/ key \in DOMAIN db[tbl]
FkOkNullable(fk, db, tbl, key) == key = NULL \/ FkOk(fk, db, tbl, key)

(* ---------------------------------------------------------------------- *)
(* import_data, one statement per record                                  *)
(* ---------------------------------------------------------------------- *)

ImportUserTouchesCreatedAt(fk, db, cur, d, now) ==
  IF ~Has(d, "id") THEN Fail(db)
  ELSE IF d["id"] # cur THEN Ok(db)
  ELSE IF ~HasAll(d, {"username", "email"}) THEN Fail(db)
  ELSE LET row == [db.users[d["id"]] EXCEPT !.username = d["username"],
                                             !.email = d["email"],
                                             !.created_at = now,
                                             !.updated_at = now]
           db2 == Put(db, "users", d["id"], row)
       IN  IF UsersUnique(db2.users) THEN Ok(db2) ELSE Fail(db)

ImportUserAnyId(fk, db, cur, d, now) ==
  IF ~HasAll(d, {"id", "username", "email"}) THEN Fail(db)
  ELSE IF d["id"] \notin DOMAIN db.users THEN Ok(db)
  ELSE LET row == [db.users[d["id"]] EXCEPT !.username = d["username"],
                                             !.email = d["email"],
                                             !.updated_at = now]
           db2 == Put(db, "users", d["id"], row)
       IN  IF UsersUnique(db2.users) THEN Ok(db2) ELSE Fail(db)

(* lines 224-233: update(User).where(User.id == user_data["id"]) for the  *)
(* caller's own record only; every other record is passed over.           *)
ImportUser(fk, db, cur, d, now) ==
  IF ~Has(d, "id") THEN Fail(db)
  ELSE IF d["id"] # cur THEN Ok(db)
  ELSE IF ~HasAll(d, {"username", "email"}) THEN Fail(db)
  ELSE IF d["username"] = NULL \/ d["email"] = NULL THEN Fail(db)
  ELSE IF d["id"] \notin DOMAIN db.users THEN Ok(db)
  ELSE LET row == [db.users[d["id"]] EXCEPT !.username = d["username"],
                                             !.email = d["email"],
                                             !.updated_at = now]
           db2 == Put(db, "users", d["id"], row)
       IN  IF UsersUnique(db2.users) THEN Ok(db2) ELSE Fail(db)

ImportCategoryReplace(fk, db, cur, d, now) ==
  IF ~HasAll(d, {"id", "user_id", "name"}) THEN Fail(db)
  ELSE IF d["user_id"] = NULL \/ d["name"] = NULL THEN Fail(db)
  ELSE IF ~FkOk(fk, db, "users", d["user_id"]) THEN Fail(db)
  ELSE LET id == d["id"]
           row == [user_id |-> d["user_id"],
                   name |-> d["name"],
                   emoji |-> Get(d, "emoji", NULL),
                   knowledge_base_id |-> Get(d, "knowledge_base_id", NULL)]
           kept == {c \in (DOMAIN db.categories) \ {id} :
                      ~(db.categories[c].user_id = row.user_id
                        /\ db.categories[c].name = row.name)}
       IN  Ok([db EXCEPT !.categories =
                 [c \in kept \cup {id} |->
                    IF c = id THEN row ELSE db.categories[c]]])

ImportCategoryUnchecked(fk, db, cur, d, now) ==
  IF ~HasAll(d, {"id", "user_id", "name"}) THEN Fail(db)
  ELSE IF d["user_id"] = NULL \/ d["name"] = NULL THEN Fail(db)
  ELSE LET id == d["id"]
           exists == id \in DOMAIN db.categories
           row == IF exists
                  THEN [db.categories[id] EXCEPT
                          !.name = d["name"],
                          !.emoji = Get(d, "emoji", NULL),
                          !.knowledge_base_id = Get(d, "knowledge_base_id", NULL)]
                  ELSE [user_id |-> d["user_id"],
                        name |-> d["name"],
                        emoji |-> Get(d, "emoji", NULL),
                        knowledge_base_id |-> Get(d, "knowledge_base_id", NULL)]
       IN  IF ~exists /\ ~FkOk(fk, db, "users", d["user_id"]) THEN Fail(db)
           ELSE Ok(Put(db, "categories", id, row))

ImportCategoryMovesOwner(fk, db, cur, d, now) ==
  IF ~HasAll(d, {"id", "user_id", "name"}) THEN Fail(db)
  ELSE IF d["user_id"] = NULL \/ d["name"] = NULL THEN Fail(db)
  ELSE LET id == d["id"]
           exists == id \in DOMAIN db.categories
           row == [user_id |-> d["user_id"],
                   name |-> d["name"],
                   emoji |-> Get(d, "emoji", NULL),
                   knowledge_base_id |-> Get(d, "knowledge_base_id", NULL)]
           db2 == Put(db, "categories", id, row)
       IN  IF ~CategoriesUnique(db2.categories) THEN Fail(db)
           ELSE IF ~exists /\ ~FkOk(fk, db, "users", d["user_id"]) THEN Fail(db)
           ELSE Ok(db2)

(* lines 237-252 *)
ImportCategory(fk, db, cur, d, now) ==
  IF ~HasAll(d, {"id", "user_id", "name"}) THEN Fail(db)
  ELSE IF d["user_id"] = NULL \/ d["name"] = NULL THEN Fail(db)
  ELSE LET id == d["id"]
           exists == id \in DOMAIN db.categories
           row == IF exists
                  THEN [db.categories[id] EXCEPT
                          !.name = d["name"],
                          !.emoji = Get(d, "emoji", NULL),
                          !.knowledge_base_id = Get(d, "knowledge_base_id", NULL)]
                  ELSE [user_id |-> d["user_id"],
                        name |-> d["name"],
                        emoji |-> Get(d, "emoji", NULL),
                        knowledge_base_id |-> Get(d, "knowledge_base_id", NULL)]
           db2 == Put(db, "categories", id, row)
       IN  IF ~CategoriesUnique(db2.categories) THEN Fail(db)
           ELSE IF ~exists /\ ~FkOk(fk, db, "users", d["user_id"]) THEN Fail(db)
           ELSE Ok(db2)

(* lines 256-272 *)
ImportCollection(fk, db, cur, d, now) ==
  IF ~HasAll(d, {"id", "user_id"}) THEN Fail(db)
  ELSE LET id == d["id"]
           ca == Get(d, "created_at", JsonNull)
           ua == Get(d, "updated_at", JsonNull)
           exists == id \in DOMAIN db.collections
           row == IF exists
                  THEN [db.collections[id] EXCEPT
                          !.category_id = Get(d, "category_id", NULL),
                          !.tags = Get(d, "tags", NULL),
                          !.updated_at = now]
                  ELSE [user_id |-> d["user_id"],
                        category_id |-> Get(d, "category_id", NULL),
                        tags |-> Get(d, "tags", NULL),
                        created_at |-> ca.t,
                        updated_at |-> ua.t]
           db2 == Put(db, "collections", id, row)
       IN  IF ~BindDateTimeOk(ca) \/ ~BindDateTimeOk(ua) THEN Fail(db)
           ELSE IF d["user_id"] = NULL \/ BoundIsNull(ca) \/ BoundIsNull(ua) THEN Fail(db)
           ELSE IF ~FkOkNullable(fk, db, "categories", row.category_id) THEN Fail(db)
           ELSE IF ~exists /\ ~FkOk(fk, db, "users", d["user_id"]) THEN Fail(db)
           ELSE Ok(db2)

(* lines 276-291 *)
ImportCollectionDetail(fk, db, cur, d, now) ==
  IF ~HasAll(d, {"id", "collection_id", "key", "value"}) THEN Fail(db)
  ELSE LET id == d["id"]
           ca == Get(d, "created_at", JsonNull)
           ua == Get(d, "updated_at", JsonNull)
           exists == id \in DOMAIN db.collection_details
           row == IF exists
                  THEN [db.collection_details[id] EXCEPT
                          !.value = d["value"],
                          !.updated_at = now]
                  ELSE [collection_id |-> d["collection_id"],
                        key |-> d["key"],
                        value |-> d["value"],
                        created_at |-> ca.t,
                        updated_at |-> ua.t]
           db2 == Put(db, "collection_details", id, row)
       IN  IF ~BindDateTimeOk(ca) \/ ~BindDateTimeOk(ua) THEN Fail(db)
           ELSE IF d["collection_id"] = NULL \/ d["key"] = NULL
                   \/ BoundIsNull(ca) \/ BoundIsNull(ua) THEN Fail(db)
           ELSE IF ~DetailsUnique(db2.collection_details) THEN Fail(db)
           ELSE IF ~exists /\ ~FkOk(fk, db, "collections", d["collection_id"]) THEN Fail(db)
           ELSE Ok(db2)

(* lines 295-309 *)
ImportAttachment(fk, db, cur, d, now) ==
  IF ~HasAll(d, {"id", "user_id", "file_path"}) THEN Fail(db)
  ELSE LET id == d["id"]
           ca == Get(d, "created_at", JsonNull)
           exists == id \in DOMAIN db.attachments
           row == IF exists
                  THEN [db.attachments[id] EXCEPT
                          !.url = d["file_path"],
                          !.description = Get(d, "filename", "")]
                  ELSE [user_id |-> d["user_id"],
                        url |-> d["file_path"],
                        description |-> Get(d, "filename", ""),
                        created_at |-> ca.t]
           db2 == Put(db, "attachments", id, row)
       IN  IF ~BindDateTimeOk(ca) THEN Fail(db)
           ELSE IF d["user_id"] = NULL \/ d["file_path"] = NULL \/ BoundIsNull(ca)
                THEN Fail(db)
           ELSE IF ~exists /\ ~FkOk(fk, db, "users", d["user_id"]) THEN Fail(db)
           ELSE Ok(db2)

(* lines 313-328 *)
ImportPost(fk, db, cur, d, now) ==
  IF ~HasAll(d, {"id", "user_id", "collection_id"}) THEN Fail(db)
  ELSE LET id == d["id"]
           ca == Get(d, "created_at", JsonNull)
           ua == Get(d, "updated_at", JsonNull)
           exists == id \in DOMAIN db.posts
           row == IF exists
                  THEN [db.posts[id] EXCEPT
                          !.description = Get(d, "content", ""),
                          !.updated_at = now]
                  ELSE [user_id |-> d["user_id"],
                        refer_collection_id |-> d["collection_id"],
                        description |-> Get(d, "content", ""),
                        created_at |-> ca.t,
                        updated_at |-> ua.t]
           db2 == Put(db, "posts", id, row)
       IN  IF ~BindDateTimeOk(ca) \/ ~BindDateTimeOk(ua) THEN Fail(db)
           ELSE IF d["user_id"] = NULL \/ d["collection_id"] = NULL
                   \/ BoundIsNull(ca) \/ BoundIsNull(ua) THEN Fail(db)
           ELSE IF ~exists /\ ~(FkOk(fk, db, "users", d["user_id"])
                                /\ FkOk(fk, db, "collections", d["collection_id"]))
                THEN Fail(db)
           ELSE Ok(db2)

(* lines 332-347 *)
ImportComment(fk, db, cur, d, now) ==
  IF ~HasAll(d, {"id", "post_id", "user_id", "content"}) THEN Fail(db)
  ELSE LET id == d["id"]
           ca == Get(d, "created_at", JsonNull)
           ua == Get(d, "updated_at", JsonNull)
           exists == id \in DOMAIN db.comments
           row == IF exists
                  THEN [db.comments[id] EXCEPT
                          !.content = d["content"],
                          !.updated_at = now]
                  ELSE [post_id |-> d["post_id"],
                        user_id |-> d["user_id"],
                        content |-> d["content"],
                        created_at |-> ca.t,
                        updated_at |-> ua.t]
           db2 == Put(db, "comments", id, row)
       IN  IF ~BindDateTimeOk(ca) \/ ~BindDateTimeOk(ua) THEN Fail(db)
           ELSE IF d["post_id"] = NULL \/ d["user_id"] = NULL \/ d["content"] = NULL
                   \/ BoundIsNull(ca) \/ BoundIsNull(ua) THEN Fail(db)
           ELSE IF ~exists /\ ~(FkOk(fk, db, "users", d["user_id"])
                                /\ FkOk(fk, db, "posts", d["post_id"]))
                THEN Fail(db)
           ELSE Ok(db2)

ImportLikeDefaultCreatedAt(fk, db, cur, d, now) ==
  IF ~HasAll(d, {"id", "user_id", "asset_id", "asset_type"}) THEN Fail(db)
  ELSE LET id == d["id"]
           row == [user_id |-> d["user_id"],
                   asset_id |-> d["asset_id"],
                   asset_type |-> d["asset_type"],
                   created_at |-> now]
           db2 == Put(db, "likes", id, row)
       IN  IF d["asset_type"] \notin AssetType THEN Fail(db)
           ELSE IF d["user_id"] = NULL \/ d["asset_id"] = NULL THEN Fail(db)
           ELSE IF id \in DOMAIN db.likes \/ ~LikesUnique(db2.likes) THEN Ok(db)
           ELSE IF ~FkOk(fk, db, "users", d["user_id"]) THEN Fail(db)
           ELSE Ok(db2)

(* lines 351-359: on_conflict_do_nothing() without a target: a clash on   *)
(* the primary key or on uq_likes_user_asset leaves the table as it is.   *)
ImportLike(fk, db, cur, d, now) ==
  IF ~HasAll(d, {"id", "user_id", "asset_id", "asset_type"}) THEN Fail(db)
  ELSE LET id == d["id"]
           ca == Get(d, "created_at", JsonNull)
           row == [user_id |-> d["user_id"],
                   asset_id |-> d["asset_id"],
                   asset_type |-> d["asset_type"],
                   created_at |-> ca.t]
           db2 == Put(db, "likes", id, row)
       IN  IF d["asset_type"] \notin AssetType \/ ~BindDateTimeOk(ca) THEN Fail(db)
           ELSE IF d["user_id"] = NULL \/ d["asset_id"] = NULL \/ BoundIsNull(ca)
                THEN Fail(db)
           ELSE IF id \in DOMAIN db.likes \/ ~LikesUnique(db2.likes) THEN Ok(db)
           ELSE IF ~FkOk(fk, db, "users", d["user_id"]) THEN Fail(db)
           ELSE Ok(db2)

ImportOrderChildrenFirst ==
  <<"users", "collections", "categories", "collection_details",
    "attachments", "posts", "comments", "likes">>

(* the order of the eight loops of import_data *)
ImportOrder ==
  <<"users", "categories", "collections", "collection_details",
    "attachments", "posts", "comments", "likes">>

ImportRecord(fk, db, cur, op, now) ==
  CASE op[1] = "users"              -> ImportUser(fk, db, cur, op[2], now)
    [] op[1] = "categories"         -> ImportCategory(fk, db, cur, op[2], now)
    [] op[1] = "collections"        -> ImportCollection(fk, db, cur, op[2], now)
    [] op[1] = "collection_details" -> ImportCollectionDetail(fk, db, cur, op[2], now)
    [] op[1] = "attachments"        -> ImportAttachment(fk, db, cur, op[2], now)
    [] op[1] = "posts"              -> ImportPost(fk, db, cur, op[2], now)
    [] op[1] = "comments"           -> ImportComment(fk, db, cur, op[2], now)
    [] op[1] = "likes"              -> ImportLike(fk, db, cur, op[2], now)

(* the records of a document in the order import_data reaches them *)
RECURSIVE OpsFrom(_, _)
OpsFrom(doc, i) ==
  IF i > Len(ImportOrder) THEN <<>>
  ELSE LET t == ImportOrder[i]
           here == IF t \in DOMAIN doc
                   THEN [j \in 1..Len(doc[t]) |-> <<t, doc[t][j]>>]
                   ELSE <<>>
       IN  here \o OpsFrom(doc, i + 1)

OpsKeyError(doc) ==
  IF \A i \in 1..Len(ImportOrder) : ImportOrder[i] \in DOMAIN doc
  THEN OpsFrom(doc, 1)
  ELSE <<<<"users", [username |-> "KeyError"]>>>>

Ops(doc) == OpsFrom(doc, 1)

(* the body of the try block up to the commit: the session's pending      *)
(* state after the records before the first failure, and that record's    *)
(* position n (Len(ops) + 1 when none fails)                              *)
RECURSIVE RunFrom(_, _, _, _, _, _)
RunFrom(fk, db, cur, ops, i, now) ==
  IF i > Len(ops) THEN [ok |-> TRUE, db |-> db, n |-> i]
  ELSE LET r == ImportRecord(fk, db, cur, ops[i], now)
       IN  IF r.ok THEN RunFrom(fk, r.db, cur, ops, i + 1, now)
           ELSE [ok |-> FALSE, db |-> db, n |-> i]

ImportRun(fk, db, cur, doc, now) == RunFrom(fk, db, cur, Ops(doc), 1, now)

CommitKeepsCommitted(pending, committed) ==
  [t \in DOMAIN pending |->
     [k \in DOMAIN pending[t] |->
        IF k \in DOMAIN committed[t] THEN committed[t][k] ELSE pending[t][k]]]

(* line 361 db.commit(), line 366 db.rollback() *)
Commit(pending, committed) == pending

RollbackKeepsPending(pending, committed) == pending

Rollback(pending, committed) == committed

(* ---------------------------------------------------------------------- *)
(* export_data                                                            *)
(* ---------------------------------------------------------------------- *)

(* scalars().all(): the rows of a result as a list *)
RECURSIVE SeqOf(_)
SeqOf(S) ==
  IF S = {} THEN <<>>
  ELSE LET x == CHOOSE y \in S : TRUE IN <<x>> \o SeqOf(S \ {x})

(* x or "" *)
OrEmpty(v) == IF v = NULL THEN "" ELSE v

AllIds(db, tbl, u) == DOMAIN db[tbl]

AllDetailIds(db, cols) == DOMAIN db.collection_details

(* lines 46-90: the eight selects *)
OwnedIds(db, tbl, u) == {id \in DOMAIN db[tbl] : db[tbl][id].user_id = u}
DetailIdsOf(db, cols) ==
  {id \in DOMAIN db.collection_details : db.collection_details[id].collection_id \in cols}
CommentIdsOf(db, ps) ==
  {id \in DOMAIN db.comments : db.comments[id].post_id \in ps}

UserRecordWithHash(db, id) ==
  LET r == db.users[id]
  IN  [id |-> id, username |-> r.username, email |-> r.email,
       password_hash |-> r.password_hash,
       full_name |-> r.username, bio |-> "", avatar_url |-> "",
       created_at |-> IsoFormat(r.created_at),
       updated_at |-> IsoFormat(r.updated_at)]

(* lines 94-192: the projection of each row *)
UserRecord(db, id) ==
  LET r == db.users[id]
  IN  [id |-> id, username |-> r.username, email |-> r.email,
       full_name |-> r.username, bio |-> "", avatar_url |-> "",
       created_at |-> IsoFormat(r.created_at),
       updated_at |-> IsoFormat(r.updated_at)]

CategoryRecord(db, id) ==
  LET r == db.categories[id]
  IN  [id |-> id, name |-> r.name, description |-> "", user_id |-> r.user_id,
       emoji |-> r.emoji, knowledge_base_id |-> r.knowledge_base_id,
       created_at |-> JsonNull, updated_at |-> JsonNull]

CollectionRecord(db, id) ==
  LET r == db.collections[id]
  IN  [id |-> id, name |-> <<"Collection", id>>, description |-> "",
       category_id |-> r.category_id, user_id |-> r.user_id, tags |-> r.tags,
       is_public |-> FALSE,
       created_at |-> IsoFormat(r.created_at),
       updated_at |-> IsoFormat(r.updated_at)]

DetailRecord(db, id) ==
  LET r == db.collection_details[id]
  IN  [id |-> id, collection_id |-> r.collection_id, key |-> r.key,
       value |-> r.value,
       created_at |-> IsoFormat(r.created_at),
       updated_at |-> IsoFormat(r.updated_at)]

PostRecord(db, id) ==
  LET r == db.posts[id]
  IN  [id |-> id, title |-> "", content |-> OrEmpty(r.description),
       summary |-> "", user_id |-> r.user_id,
       collection_id |-> r.refer_collection_id, is_private |-> FALSE,
       created_at |-> IsoFormat(r.created_at),
       updated_at |-> IsoFormat(r.updated_at)]

CommentRecord(db, id) ==
  LET r == db.comments[id]
  IN  [id |-> id, content |-> r.content, user_id |-> r.user_id,
       post_id |-> r.post_id,
       created_at |-> IsoFormat(r.created_at),
       updated_at |-> IsoFormat(r.updated_at)]

AttachmentRecord(db, id) ==
  LET r == db.attachments[id]
  IN  [id |-> id, filename |-> OrEmpty(r.description), file_path |-> r.url,
       file_size |-> 0, mime_type |-> "", user_id |-> r.user_id,
       created_at |-> IsoFormat(r.created_at),
       updated_at |-> IsoFormat(r.created_at)]

LikeRecord(db, id) ==
  LET r == db.likes[id]
  IN  [id |-> id, user_id |-> r.user_id, asset_id |-> r.asset_id,
       asset_type |-> r.asset_type,
       created_at |-> IsoFormat(r.created_at)]

(* one list comprehension of lines 94-192 *)
RecordOf(db, t, id) ==
  CASE t = "users"              -> UserRecord(db, id)
    [] t = "categories"         -> CategoryRecord(db, id)
    [] t = "collections"        -> CollectionRecord(db, id)
    [] t = "collection_details" -> DetailRecord(db, id)
    [] t = "posts"              -> PostRecord(db, id)
    [] t = "comments"           -> CommentRecord(db, id)
    [] t = "attachments"        -> AttachmentRecord(db, id)
    [] t = "likes"              -> LikeRecord(db, id)

ListOf(db, t, ids) ==
  LET s == SeqOf(ids) IN [i \in 1..Len(s) |-> RecordOf(db, t, s[i])]

(* lines 39-199 *)
ExportDoc(db, u) ==
  LET cols == OwnedIds(db, "collections", u)
      ps == OwnedIds(db, "posts", u)
  IN  [users |-> ListOf(db, "users", {u}),
       categories |-> ListOf(db, "categories", OwnedIds(db, "categories", u)),
       collections |-> ListOf(db, "collections", cols),
       collection_details |-> ListOf(db, "collection_details", DetailIdsOf(db, cols)),
       posts |-> ListOf(db, "posts", ps),
       comments |-> ListOf(db, "comments", CommentIdsOf(db, ps)),
       attachments |-> ListOf(db, "attachments", OwnedIds(db, "attachments", u)),
       likes |-> ListOf(db, "likes", OwnedIds(db, "likes", u)),
       knowledge_documents |-> <<>>]

(* ---------------------------------------------------------------------- *)
(* Stores the application can hold before a migration call                *)
(* ---------------------------------------------------------------------- *)
UserIds == {"A", "B"}

UserRow(name, mail, hash) ==
  [username |-> name, email |-> mail, password_hash |-> hash,
   avatar_attachment_id |-> NULL, created_at |-> 0, updated_at |-> 0]

NoRows == [k \in {} |-> 0]

(* two registered accounts and nothing else *)
FreshStore ==
  [users |-> [u \in UserIds |->
                IF u = "A" THEN UserRow("alice", "a@x", "hashA")
                           ELSE UserRow("bob", "b@x", "hashB")],
   categories |-> NoRows, collections |-> NoRows,
   collection_details |-> NoRows, attachments |-> NoRows,
   posts |-> NoRows, comments |-> NoRows, likes |-> NoRows]

(* A and B each keep one category *)
CategoryStore ==
  [FreshStore EXCEPT
     !.categories = ("c1" :> [user_id |-> "A", name |-> "recipes",
                              emoji |-> NULL, knowledge_base_id |-> NULL])
                 @@ ("c2" :> [user_id |-> "B", name |-> "work",
                              emoji |-> "E", knowledge_base_id |-> NULL])]

(* A has published a collection; B has commented on it; both liked it *)
CommunityStore ==
  [CategoryStore EXCEPT
     !.collections = ("k1" :> [user_id |-> "A", category_id |-> "c1",
                               tags |-> "food,easy",
                               created_at |-> 0, updated_at |-> 0]),
     !.collection_details = ("d1" :> [collection_id |-> "k1", key |-> "title",
                                      value |-> "soup",
                                      created_at |-> 0, updated_at |-> 0]),
     !.attachments = ("a1" :> [user_id |-> "A", url |-> "/f/a1",
                               description |-> NULL, created_at |-> 0]),
     !.posts = ("p1" :> [user_id |-> "A", refer_collection_id |-> "k1",
                         description |-> NULL,
                         created_at |-> 0, updated_at |-> 0]),
     !.comments = ("m1" :> [post_id |-> "p1", user_id |-> "B",
                            content |-> "nice",
                            created_at |-> 0, updated_at |-> 0]),
     !.likes = ("l1" :> [user_id |-> "A", asset_id |-> "p1",
                         asset_type |-> "post", created_at |-> 0])
            @@ ("l2" :> [user_id |-> "B", asset_id |-> "p1",
                         asset_type |-> "post", created_at |-> 0])]

(* as above, and A has made the attachment a1 the avatar of the account *)
AvatarStore ==
  [CommunityStore EXCEPT !.users["A"].avatar_attachment_id = "a1"]

SeedStores == {FreshStore, CategoryStore, CommunityStore, AvatarStore}

(* ---------------------------------------------------------------------- *)
(* Request bodies                                                         *)
(* ---------------------------------------------------------------------- *)
UserPool ==
  {[id |-> "A", username |-> "carol", email |-> "c@x"],
   [id |-> "A", username |-> "bob", email |-> "a@x"],
   [id |-> "B", username |-> "carol", email |-> "c@x"],
   [id |-> "Z", username |-> "zed", email |-> "z@x"],
   [id |-> "A"]}

CategoryPool ==
  {[id |-> "c1", user_id |-> "A", name |-> "meals", emoji |-> "M"],
   [id |-> "c3", user_id |-> "A", name |-> "recipes", emoji |-> NULL,
    knowledge_base_id |-> NULL],
   [id |-> "c2", user_id |-> "A", name |-> "travel"],
   [id |-> "c4", user_id |-> "B", name |-> "recipes"],
   [id |-> "c5", user_id |-> "Z", name |-> "ghost"],
   [id |-> "c1", user_id |-> "Z", name |-> "soups"]}

CollectionPool ==
  {[id |-> "k1", user_id |-> "A", category_id |-> "c1", tags |-> "food",
    created_at |-> IsoFormat(0), updated_at |-> IsoFormat(0)],
   [id |-> "k2", user_id |-> "A", category_id |-> "c3", tags |-> NULL]}

DetailPool ==
  {[id |-> "d1", collection_id |-> "k1", key |-> "title", value |-> "stew",
    created_at |-> IsoFormat(0), updated_at |-> IsoFormat(0)]}

AttachmentPool ==
  {[id |-> "a1", user_id |-> "A", file_path |-> "/f/a1", filename |-> "pic",
    created_at |-> IsoFormat(0)]}

PostPool ==
  {[id |-> "p1", user_id |-> "A", collection_id |-> "k1", content |-> "hi",
    created_at |-> IsoFormat(0), updated_at |-> IsoFormat(0)]}

CommentPool ==
  {[id |-> "m1", post_id |-> "p1", user_id |-> "B", content |-> "great",
    created_at |-> IsoFormat(0), updated_at |-> IsoFormat(0)]}

LikePool ==
  {[id |-> "l1", user_id |-> "A", asset_id |-> "p1", asset_type |-> "post",
    created_at |-> IsoFormat(0)],
   [id |-> "l3", user_id |-> "A", asset_id |-> "m1", asset_type |-> "comment"]}

Pool ==
  ({"users"} \X UserPool) \cup ({"categories"} \X CategoryPool)
  \cup ({"collections"} \X CollectionPool)
  \cup ({"collection_details"} \X DetailPool)
  \cup ({"attachments"} \X AttachmentPool) \cup ({"posts"} \X PostPool)
  \cup ({"comments"} \X CommentPool) \cup ({"likes"} \X LikePool)

(* the body whose lists hold the given records, each list in the given order *)
RecordsOf(es, t) ==
  LET IsT(e) == e[1] = t
      sel == SelectSeq(es, IsT)
  IN  [i \in 1..Len(sel) |-> sel[i][2]]

DocOf(es) == [t \in {es[i][1] : i \in 1..Len(es)} |-> RecordsOf(es, t)]

ImportDocs ==
  {DocOf(es) : es \in UNION {[1..n -> Pool] : n \in 0..MaxDocRecs}}

(* ---------------------------------------------------------------------- *)
(* The handlers                                                           *)
(* ---------------------------------------------------------------------- *)
NoRequest ==
  [kind |-> "none", caller |-> "-", doc |-> DocOf(<<>>), status |-> "-",
   attempt |-> 0, first |-> "-"]

(* line 28 *)
ALLOWED_EXTENSIONS == {".jpg", ".jpeg", ".png", ".gif", ".webp", ".bmp"}

(* line 68, uuid.uuid4(): the names save_file can draw *)
Uuids == {"u1", "u2"}

(* line 76: the directory part of the urls save_file returns, and that of *)
(* the urls of the stores the model starts from                           *)
UrlPrefix == "/api/v1/attachments/file/"
UrlDirs == {UrlPrefix, "/f/"}
StoredNames == {"a1", "a2"} \cup {u \o e : u \in Uuids, e \in ALLOWED_EXTENSIONS}

(* Path(url).name: the last component of a url *)
PathName(url) ==
  CHOOSE n \in StoredNames : \E d \in UrlDirs : url = d \o n

(* the upload directory that goes with a store: one file per attachment *)
FilesOf(db) == {PathName(db.attachments[a].url) : a \in DOMAIN db.attachments}

(* no attachment request has been answered *)
NoCall ==
  [op |-> "none", caller |-> "-", id |-> "-", status |-> 0, files |-> {},
   fault |-> "none", n |-> 0]

Sessions == {1, 2}

(* no concurrent import is under way *)
NoSession ==
  [phase |-> "Idle", caller |-> "-", doc |-> DocOf(<<>>), pos |-> 0,
   pending |-> NoRows, now |-> 0, ack |-> "-"]
NoConc == [tx |-> [s \in Sessions |-> NoSession], lock |-> 0, order |-> <<>>]

(* no import is being followed statement by statement *)
NotRead == [read |-> FALSE, doc |-> DocOf(<<>>)]
NoTxn ==
  [phase |-> "Idle", caller |-> "-", doc |-> DocOf(<<>>), pos |-> 0,
   pending |-> NoRows, ack |-> "-", seen |-> NotRead]

Init ==
  /\ store \in SeedStores
  /\ before = store
  /\ req = NoRequest
  /\ clock = 0
  /\ fkEnforced \in BOOLEAN
  /\ txn = NoTxn
  /\ conc = NoConc
  /\ files = FilesOf(store)
  /\ att = NoCall

(* import_data(import_data=doc, current_user=cur), lines 209-371 *)
ImportCall(cur, doc, kind, attempt, first) ==
  LET now == clock + 1
      r == ImportRun(fkEnforced, store, cur, doc, now)
  IN  /\ store' = IF r.ok THEN Commit(r.db, store) ELSE Rollback(r.db, store)
      /\ before' = store
      /\ clock' = now
      /\ req' = [kind |-> kind, caller |-> cur, doc |-> doc,
                 status |-> IF r.ok THEN "Committed" ELSE "RolledBack",
                 attempt |-> attempt,
                 first |-> first]
      /\ UNCHANGED <<fkEnforced, txn, conc, files, att>>

(* a first import of a body *)
ImportData(cur, doc) ==
  /\ req.kind = "none"
  /\ ImportCall(cur, doc, "import", 1, "-")

(* the same caller posts the same body once more *)
ImportAgain ==
  /\ req.kind = "import"
  /\ req.attempt = 1
  /\ ImportCall(req.caller, req.doc, "import", 2, req.status)

(* export_data(current_user=cur), lines 30-206 *)
ExportData(cur) ==
  /\ req.kind = "none"
  /\ req' = [kind |-> "export", caller |-> cur, doc |-> ExportDoc(store, cur),
             status |-> "OK", attempt |-> 0, first |-> "-"]
  /\ before' = store
  /\ clock' = clock + 1
  /\ UNCHANGED <<store, fkEnforced, txn, conc, files, att>>

(* the caller posts the document the export returned *)
ImportExported ==
  /\ req.kind = "export"
  /\ ImportCall(req.caller, req.doc, "roundtrip", 1, "-")

(* the selects export_data issues, lines 46-90: the select of the details *)
(* and that of the comments are skipped when the id list is empty         *)
(* (lines 57 and 73)                                                      *)
ExportReads ==
  <<"categories", "collections", "collection_details", "posts", "comments",
    "attachments", "likes">>

ReadsIssued(db, u) ==
  {"categories", "collections", "posts", "attachments", "likes"}
  \cup (IF OwnedIds(db, "collections", u) # {} THEN {"collection_details"} ELSE {})
  \cup (IF OwnedIds(db, "posts", u) # {} THEN {"comments"} ELSE {})

NoDocument == DocOf(<<>>)

ExportFailureReturnsPartial(db, u, q) ==
  LET full == ExportDoc(db, u)
      At(t) == CHOOSE i \in 1..Len(ExportReads) : ExportReads[i] = t
      WasRead(t) == t \in {"users", "knowledge_documents"} \/ At(t) < At(q)
  IN  [status |-> "OK",
       doc |-> [t \in DOMAIN full |-> IF WasRead(t) THEN full[t] ELSE <<>>]]

(* lines 201-206: any exception of the try block becomes one HTTP 500     *)
(* whose body is the detail message                                       *)
ExportFailure(db, u, q) == [status |-> "Error500", doc |-> NoDocument]

(* export_data(current_user=cur) when its select q raises *)
ExportFails(cur, q) ==
  /\ req.kind = "none"
  /\ txn.phase = "Idle"
  /\ q \in ReadsIssued(store, cur)
  /\ LET r == ExportFailure(store, cur, q)
     IN  req' = [kind |-> "export_failed", caller |-> cur, doc |-> r.doc,
                 status |-> r.status, attempt |-> 0, first |-> q]
  /\ before' = store
  /\ clock' = clock + 1
  /\ UNCHANGED <<store, fkEnforced, txn, conc, files, att>>

Next ==
  \/ \E cur \in UserIds, doc \in ImportDocs : ImportData(cur, doc)
  \/ ImportAgain
  \/ \E cur \in UserIds : ExportData(cur)
  \/ \E cur \in UserIds, q \in DOMAIN ExportReads : ExportFails(cur, ExportReads[q])
  \/ ImportExported

Spec == Init /\ [][Next]_vars

(* ---------------------------------------------------------------------- *)
(* Imports in a row: each call posts a body of one record                 *)
(* ---------------------------------------------------------------------- *)
ImportNext(cur, e) ==
  /\ clock < MaxImports
  /\ ImportCall(cur, DocOf(<<e>>), "import", 1, "-")

NextSeq == \E cur \in UserIds, e \in Pool : ImportNext(cur, e)

SpecSeq == Init /\ [][NextSeq]_vars

(* ---------------------------------------------------------------------- *)
(* import_data statement by statement, with the other sessions            *)
(* ---------------------------------------------------------------------- *)
TxnPool ==
  {<<"users", [id |-> "A", username |-> "carol", email |-> "c@x"]>>,
   <<"categories", [id |-> "c1", user_id |-> "A", name |-> "meals", emoji |-> "M"]>>,
   <<"categories", [id |-> "c3", user_id |-> "A", name |-> "recipes", emoji |-> NULL,
                    knowledge_base_id |-> NULL]>>,
   <<"categories", [id |-> "c5", user_id |-> "Z", name |-> "ghost"]>>,
   <<"collections", [id |-> "k2", user_id |-> "A", category_id |-> "c3", tags |-> NULL]>>}

TxnDocs ==
  {DocOf(es) : es \in UNION {[1..n -> TxnPool] : n \in 0..MaxTxnRecs}}

StoreWhileWritingAutocommit(committed, pending) == pending

(* lines 227-359: each statement is executed in the session's transaction; *)
(* nothing is committed before line 361, so the other sessions, and the    *)
(* database after a crash, hold the committed store                        *)
StoreWhileWriting(committed, pending) == committed

InFlight == txn.phase \in {"Pending", "Writing"}

(* line 219: the request enters the try block *)
Begin(cur, doc) ==
  /\ txn.phase = "Idle"
  /\ req.kind = "none"
  /\ txn' = [phase |-> "Pending", caller |-> cur, doc |-> doc, pos |-> 1,
             pending |-> store, ack |-> "-", seen |-> NotRead]
  /\ before' = store
  /\ clock' = clock + 1
  /\ UNCHANGED <<store, req, fkEnforced, conc, files, att>>

(* one db.execute of the loops; when it raises, lines 365-371: rollback   *)
(* and HTTP 500                                                           *)
WriteNext ==
  /\ InFlight
  /\ txn.pos <= Len(Ops(txn.doc))
  /\ LET r == ImportRecord(fkEnforced, txn.pending, txn.caller,
                           Ops(txn.doc)[txn.pos], clock)
     IN  IF r.ok
         THEN /\ txn' = [txn EXCEPT !.phase = "Writing", !.pos = @ + 1,
                                    !.pending = r.db]
              /\ store' = StoreWhileWriting(store, r.db)
         ELSE /\ txn' = [txn EXCEPT !.phase = "RolledBack", !.ack = "500"]
              /\ store' = Rollback(txn.pending, store)
  /\ UNCHANGED <<before, req, clock, fkEnforced, conc, files, att>>

(* lines 361-363: db.commit() and the success response *)
CommitTx ==
  /\ InFlight
  /\ txn.pos > Len(Ops(txn.doc))
  /\ store' = Commit(txn.pending, store)
  /\ txn' = [txn EXCEPT !.phase = "Committed", !.ack = "200"]
  /\ UNCHANGED <<before, req, clock, fkEnforced, conc, files, att>>

(* the process dies before line 361: no response, and the database drops  *)
(* the open transaction                                                   *)
Crash ==
  /\ InFlight
  /\ store' = Rollback(txn.pending, store)
  /\ txn' = [txn EXCEPT !.phase = "RolledBack", !.ack = "none"]
  /\ UNCHANGED <<before, req, clock, fkEnforced, conc, files, att>>

(* export_data in another session while or after the import runs *)
ConcurrentExport(u) ==
  /\ txn.phase # "Idle"
  /\ txn' = [txn EXCEPT !.seen = [read |-> TRUE, doc |-> ExportDoc(store, u)]]
  /\ UNCHANGED <<store, before, req, clock, fkEnforced, conc, files, att>>

NextSteps ==
  \/ \E cur \in UserIds, doc \in TxnDocs : Begin(cur, doc)
  \/ WriteNext
  \/ CommitTx
  \/ Crash
  \/ \E u \in UserIds : ConcurrentExport(u)

SpecSteps == Init /\ [][NextSteps]_vars

(* ---------------------------------------------------------------------- *)
(* Two imports at once, each in its own session and transaction           *)
(* ---------------------------------------------------------------------- *)
ConcPool ==
  {<<"users", [id |-> "A", username |-> "carol", email |-> "c@x"]>>,
   <<"categories", [id |-> "c1", user_id |-> "A", name |-> "meals", emoji |-> "M"]>>,
   <<"categories", [id |-> "c1", user_id |-> "Z", name |-> "soups"]>>,
   <<"categories", [id |-> "c3", user_id |-> "A", name |-> "recipes", emoji |-> NULL,
                    knowledge_base_id |-> NULL]>>}

ConcDocs ==
  {DocOf(es) : es \in UNION {[1..n -> ConcPool] : n \in 0..MaxConcRecs}}

Other(s) == 3 - s

Running(s) == conc.tx[s].phase \in {"Pending", "Writing"}

SnapshotAtBegin(committed, held) == held

(* line 4, sqlalchemy.dialects.sqlite: the first statement of a session   *)
(* that writes opens its transaction on the database as committed then    *)
(* and takes the write lock, which SQLite grants to one connection        *)
SnapshotAtLock(committed, held) == committed

(* line 219: a request enters the try block; session 1 is the first *)
TxBegin(s, cur, doc) ==
  /\ req.kind = "none"
  /\ txn.phase = "Idle"
  /\ conc.tx[s].phase = "Idle"
  /\ s = 2 => conc.tx[1].phase # "Idle"
  /\ conc' = [conc EXCEPT !.tx[s] =
                [phase |-> "Pending", caller |-> cur, doc |-> doc, pos |-> 1,
                 pending |-> store, now |-> clock + 1, ack |-> "-"]]
  /\ clock' = clock + 1
  /\ UNCHANGED <<store, before, req, fkEnforced, txn, files, att>>

(* one db.execute of session s, which holds the write lock or takes it;   *)
(* when the statement raises, lines 365-371                               *)
TxWrite(s) ==
  /\ Running(s)
  /\ conc.tx[s].pos <= Len(Ops(conc.tx[s].doc))
  /\ conc.lock \in {0, s}
  /\ LET t == conc.tx[s]
         snap == IF conc.lock = s THEN t.pending
                 ELSE SnapshotAtLock(store, t.pending)
         r == ImportRecord(fkEnforced, snap, t.caller, Ops(t.doc)[t.pos], t.now)
     IN  IF r.ok
         THEN conc' = [conc EXCEPT !.tx[s].phase = "Writing",
                                   !.tx[s].pos = @ + 1,
                                   !.tx[s].pending = r.db,
                                   !.lock = s]
         ELSE conc' = [conc EXCEPT !.tx[s].phase = "RolledBack",
                                   !.tx[s].ack = "500",
                                   !.lock = 0]
  /\ UNCHANGED <<store, before, req, clock, fkEnforced, txn, files, att>>

(* the statement of session s finds the database locked by the other      *)
(* session until its busy timeout: OperationalError, lines 365-371        *)
TxBusy(s) ==
  /\ Running(s)
  /\ conc.tx[s].pos <= Len(Ops(conc.tx[s].doc))
  /\ conc.lock = Other(s)
  /\ conc' = [conc EXCEPT !.tx[s].phase = "RolledBack", !.tx[s].ack = "500"]
  /\ UNCHANGED <<store, before, req, clock, fkEnforced, txn, files, att>>

(* lines 361-363 in session s *)
TxCommit(s) ==
  /\ Running(s)
  /\ conc.tx[s].pos > Len(Ops(conc.tx[s].doc))
  /\ store' = IF conc.lock = s THEN Commit(conc.tx[s].pending, store) ELSE store
  /\ conc' = [conc EXCEPT !.tx[s].phase = "Committed",
                          !.tx[s].ack = "200",
                          !.lock = IF conc.lock = s THEN 0 ELSE @,
                          !.order = Append(@, s)]
  /\ UNCHANGED <<before, req, clock, fkEnforced, txn, files, att>>

NextTwo ==
  \/ \E s \in Sessions, cur \in UserIds, doc \in ConcDocs : TxBegin(s, cur, doc)
  \/ \E s \in Sessions : TxWrite(s)
  \/ \E s \in Sessions : TxBusy(s)
  \/ \E s \in Sessions : TxCommit(s)

SpecTwo == Init /\ [][NextTwo]_vars

(* ---------------------------------------------------------------------- *)
(* The attachment handlers                                                *)
(* ---------------------------------------------------------------------- *)

(* the names a client sends with a file, and Path(name).suffix.lower():   *)
(* a name that only begins with a dot has no suffix                       *)
FileNames == {NULL, "", "cat.PNG", "dog.jpg", "notes.txt", ".png"}

Suffix(filename) ==
  CASE filename = "cat.PNG" -> ".png"
    [] filename = "dog.jpg" -> ".jpg"
    [] filename = "notes.txt" -> ".txt"
    [] OTHER -> ""

Descriptions == {NULL, "photo"}

(* line 136, default=uuid4: the ids a new attachment can draw, and the    *)
(* ids a request can name                                                 *)
NewIds == {"n1", "n2"}
AttachmentIds == {"a1"} \cup NewIds

(* where a request can break: open() or copyfileobj() in save_file,       *)
(* db.commit(), db.refresh()                                              *)
Faults == {"none", "open", "copy", "commit", "refresh"}

(* lines 49-60: the status validate_file raises, 0 when it returns *)
validate_file(filename) ==
  IF filename \in {NULL, ""} THEN 400
  ELSE IF Suffix(filename) \notin ALLOWED_EXTENSIONS THEN 400
  ELSE 0

(* lines 67-68 and 76 *)
unique_filename(uuid, filename) == uuid \o Suffix(filename)
file_url(uuid, filename) == UrlPrefix \o unique_filename(uuid, filename)

(* the select of lines 131-135, 176-180 and 223-227 *)
OwnAttachment(db, cur, id) ==
  /\ id \in DOMAIN db.attachments
  /\ db.attachments[id].user_id = cur

(* model.py lines 33-35: the rows that refer to an attachment *)
ReferredTo(db, id) ==
  \E u \in DOMAIN db.users : db.users[u].avatar_attachment_id = id

Without(rows, id) == [k \in (DOMAIN rows) \ {id} |-> rows[k]]

Answer(op, cur, id, status, fault) ==
  [op |-> op, caller |-> cur, id |-> id, status |-> status, files |-> files,
   fault |-> fault, n |-> att.n + 1]

(* upload_attachment, lines 83-118 *)
UploadAttachment(cur, filename, description, uuid, id, fault) ==
  /\ att.n < MaxCalls
  /\ id \notin DOMAIN store.attachments
  /\ before' = store
  /\ IF validate_file(filename) # 0
     THEN /\ att' = Answer("upload", cur, "-", validate_file(filename), "none")
          /\ UNCHANGED <<store, files, clock>>
     ELSE LET name == unique_filename(uuid, filename)
              row == [user_id |-> cur, url |-> file_url(uuid, filename),
                      description |-> description, created_at |-> clock + 1]
          IN  /\ name \notin files
              /\ clock' = clock + 1
              /\ CASE fault = "open" ->
                        /\ att' = Answer("upload", cur, "-", 500, fault)
                        /\ UNCHANGED <<store, files>>
                   [] fault = "copy" ->
                        /\ att' = Answer("upload", cur, "-", 500, fault)
                        /\ files' = files \cup {name}
                        /\ UNCHANGED store
                   [] fault = "commit" ->
                        /\ att' = Answer("upload", cur, "-", 500, fault)
                        /\ files' = (files \cup {name}) \ {PathName(row.url)}
                        /\ UNCHANGED store
                   [] fault = "refresh" ->
                        /\ att' = Answer("upload", cur, id, 500, fault)
                        /\ files' = (files \cup {name}) \ {PathName(row.url)}
                        /\ store' = Put(store, "attachments", id, row)
                   [] OTHER ->
                        /\ att' = Answer("upload", cur, id, 201, fault)
                        /\ files' = files \cup {name}
                        /\ store' = Put(store, "attachments", id, row)
  /\ UNCHANGED <<req, fkEnforced, txn, conc>>

(* get_attachment, lines 123-141 *)
GetAttachment(cur, id) ==
  /\ att.n < MaxCalls
  /\ before' = store
  /\ att' = Answer("get", cur, id, IF OwnAttachment(store, cur, id) THEN 200 ELSE 404,
                   "none")
  /\ UNCHANGED <<store, req, clock, fkEnforced, txn, conc, files>>

(* get_attachment_file, lines 145-163: the route declared first answers   *)
(* GET /file/{attachment_id}, for any caller                              *)
GetAttachmentFile(id) ==
  /\ att.n < MaxCalls
  /\ before' = store
  /\ att' = Answer("file", "-", id,
                   IF id \notin DOMAIN store.attachments THEN 404
                   ELSE IF PathName(store.attachments[id].url) \notin files THEN 404
                   ELSE 200,
                   "none")
  /\ UNCHANGED <<store, req, clock, fkEnforced, txn, conc, files>>

(* delete_attachment, lines 215-246; unlinked is whether unlink() of      *)
(* lines 235-240 went through                                             *)
DeleteAttachment(cur, id, unlinked) ==
  /\ att.n < MaxCalls
  /\ before' = store
  /\ IF ~OwnAttachment(store, cur, id)
     THEN /\ att' = Answer("delete", cur, id, 404, "none")
          /\ UNCHANGED <<store, files>>
     ELSE /\ files' = IF unlinked THEN files \ {PathName(store.attachments[id].url)}
                      ELSE files
          /\ IF fkEnforced /\ ReferredTo(store, id)
             THEN /\ att' = Answer("delete", cur, id, 500, "commit")
                  /\ UNCHANGED store
             ELSE /\ att' = Answer("delete", cur, id, 204, "none")
                  /\ store' = [store EXCEPT !.attachments = Without(@, id)]
  /\ UNCHANGED <<req, clock, fkEnforced, txn, conc>>

NextFiles ==
  \/ \E cur \in UserIds, filename \in FileNames, description \in Descriptions,
        uuid \in Uuids, id \in NewIds, fault \in Faults :
        UploadAttachment(cur, filename, description, uuid, id, fault)
  \/ \E cur \in UserIds, id \in AttachmentIds : GetAttachment(cur, id)
  \/ \E id \in AttachmentIds : GetAttachmentFile(id)
  \/ \E cur \in UserIds, id \in AttachmentIds, unlinked \in BOOLEAN :
        DeleteAttachment(cur, id, unlinked)

SpecFiles == Init /\ [][NextFiles]_vars

TypeOK ==
  /\ req.kind \in {"none", "import", "export", "export_failed", "roundtrip"}
  /\ clock \in Nat
  /\ DOMAIN store = TableNames
  /\ txn.phase \in {"Idle", "Pending", "Writing", "Committed", "RolledBack"}

(* ---------------------------------------------------------------------- *)
(* Properties                                                             *)
(* ---------------------------------------------------------------------- *)
IsImport == req.kind \in {"import", "roundtrip"}

(* the try block of the call just answered, replayed on the store it found *)
LastRun == ImportRun(fkEnforced, before, req.caller, req.doc, clock)
LastOps == Ops(req.doc)

(* C1: when a record of an import fails, whatever its position, the store  *)
(* after the call is the store before it: nothing the earlier records      *)
(* wrote remains.                                                          *)
ImportIsAtomic ==
  IsImport =>
    /\ req.status = (IF LastRun.ok THEN "Committed" ELSE "RolledBack")
    /\ (~LastRun.ok => store = before)

(* a later record failed after earlier ones had changed the session *)
ImportFailedAfterWrites ==
  /\ IsImport
  /\ ~LastRun.ok
  /\ LastRun.n >= 2
  /\ LastRun.db # before
  /\ store = before

(* the user that a row belongs to: itself, its user_id, or the owner of    *)
(* its collection                                                          *)
OwnerOf(db, tbl, id) ==
  IF tbl = "users" THEN id
  ELSE IF tbl = "collection_details"
       THEN LET c == db[tbl][id].collection_id
            IN  IF c \in DOMAIN db.collections THEN db.collections[c].user_id ELSE NULL
       ELSE db[tbl][id].user_id

(* C2: an import writes the caller's own records only: no row owned by     *)
(* another user is created or modified.                                    *)
ImportWritesOnlyCallerRows ==
  IsImport =>
    \A tbl \in TableNames : \A id \in DOMAIN store[tbl] :
       OwnerOf(store, tbl, id) # req.caller =>
          id \in DOMAIN before[tbl] /\ store[tbl][id] = before[tbl][id]

UserIdOf(t, d) == IF t = "users" THEN d["id"] ELSE d["user_id"]
ListsWithUserId ==
  {"users", "categories", "collections", "posts", "comments", "attachments", "likes"}

(* C3: no list of an exported document holds a record whose user_id is     *)
(* another user's.                                                         *)
ExportHasNoForeignUserId ==
  req.kind = "export" =>
    \A t \in ListsWithUserId : \A i \in 1..Len(req.doc[t]) :
       UserIdOf(t, req.doc[t][i]) = req.caller

IdsIn(doc, t) == {doc[t][i]["id"] : i \in 1..Len(doc[t])}

(* C3 as amended: every user, category, collection, post, attachment and   *)
(* like of an exported document has the caller's user_id; every collection *)
(* detail belongs to an exported collection and every comment to an        *)
(* exported post, whoever wrote the comment.                               *)
ExportHoldsOnlyCallerGraph ==
  req.kind = "export" =>
    /\ \A t \in ListsWithUserId \ {"comments"} : \A i \in 1..Len(req.doc[t]) :
          UserIdOf(t, req.doc[t][i]) = req.caller
    /\ \A i \in 1..Len(req.doc["collection_details"]) :
          req.doc["collection_details"][i]["collection_id"] \in IdsIn(req.doc, "collections")
    /\ \A i \in 1..Len(req.doc["comments"]) :
          req.doc["comments"][i]["post_id"] \in IdsIn(req.doc, "posts")

(* an export that carries a comment another user wrote, while that other   *)
(* user's own rows stay out                                                *)
ExportCarriesForeignComment ==
  /\ req.kind = "export"
  /\ \E i \in 1..Len(req.doc["comments"]) :
        req.doc["comments"][i]["user_id"] # req.caller
  /\ \E id \in DOMAIN store.categories : store.categories[id].user_id # req.caller
  /\ Len(req.doc["categories"]) > 0

IsForeignUser(cur, d) == Has(d, "id") /\ d["id"] # cur

WithoutForeignUsers(cur, doc) ==
  [t \in DOMAIN doc |->
     IF t = "users"
     THEN LET Own(d) == ~IsForeignUser(cur, d) IN SelectSeq(doc[t], Own)
     ELSE doc[t]]

HasForeignUser(cur, doc) ==
  /\ "users" \in DOMAIN doc
  /\ \E i \in 1..Len(doc["users"]) : IsForeignUser(cur, doc["users"][i])

(* C4: a users record whose id is not the caller's changes no user row,    *)
(* creates none, and does not decide whether the import succeeds.          *)
ForeignUsersAreSkipped ==
  (IsImport /\ HasForeignUser(req.caller, req.doc)) =>
    /\ DOMAIN store.users = DOMAIN before.users
    /\ \A u \in DOMAIN store.users :
          u # req.caller => store.users[u] = before.users[u]
    /\ LET alone == ImportRun(fkEnforced, before, req.caller,
                              WithoutForeignUsers(req.caller, req.doc), clock)
       IN  /\ alone.ok = LastRun.ok
           /\ alone.ok => store = alone.db

(* an import that carried another existing user's record and committed *)
ForeignUserWasSkipped ==
  /\ IsImport
  /\ req.status = "Committed"
  /\ \E i \in 1..Len(LastOps) :
        /\ LastOps[i][1] = "users"
        /\ IsForeignUser(req.caller, LastOps[i][2])
        /\ LastOps[i][2]["id"] \in DOMAIN before.users
        /\ Has(LastOps[i][2], "username")
        /\ LastOps[i][2]["username"] # before.users[LastOps[i][2]["id"]].username
  /\ store # before

(* the rows a record refers to: table and key *)
ParentRefs(op) ==
  LET t == op[1]
      d == op[2]
      Ref(tbl, k) == IF Has(d, k) /\ d[k] # NULL THEN {<<tbl, d[k]>>} ELSE {}
  IN  CASE t = "users" -> {}
        [] t = "categories" -> Ref("users", "user_id")
        [] t = "collections" -> Ref("users", "user_id") \cup Ref("categories", "category_id")
        [] t = "collection_details" -> Ref("collections", "collection_id")
        [] t = "attachments" -> Ref("users", "user_id")
        [] t = "posts" -> Ref("users", "user_id") \cup Ref("collections", "collection_id")
        [] t = "comments" -> Ref("users", "user_id") \cup Ref("posts", "post_id")
        [] t = "likes" ->
             Ref("users", "user_id")
             \cup (IF Has(d, "asset_type") /\ d["asset_type"] = "post"
                   THEN Ref("posts", "asset_id") ELSE {})
             \cup (IF Has(d, "asset_type") /\ d["asset_type"] = "comment"
                   THEN Ref("comments", "asset_id") ELSE {})

ParentTypes(t) ==
  CASE t = "users" -> {}
    [] t = "categories" -> {"users"}
    [] t = "collections" -> {"users", "categories"}
    [] t = "collection_details" -> {"collections"}
    [] t = "attachments" -> {"users"}
    [] t = "posts" -> {"users", "collections"}
    [] t = "comments" -> {"users", "posts"}
    [] t = "likes" -> {"users", "posts", "comments"}

(* every parent named is a row of the store or, users apart, a record of   *)
(* the body                                                                *)
WellFormed(db, ops) ==
  \A i \in 1..Len(ops) : \A ref \in ParentRefs(ops[i]) :
     \/ ref[2] \in DOMAIN db[ref[1]]
     \/ /\ ref[1] # "users"
        /\ \E j \in 1..Len(ops) :
              ops[j][1] = ref[1] /\ Has(ops[j][2], "id") /\ ops[j][2]["id"] = ref[2]

IsSecondImport ==
  req.kind = "import" /\ req.attempt = 2 /\ req.first = "Committed"

(* C5: importing a body twice in succession ends in the same store as      *)
(* importing it once.                                                      *)
ReimportChangesNothing == IsSecondImport => store = before

WithoutUpdatedAt(row) == [k \in (DOMAIN row) \ {"updated_at"} |-> row[k]]

SameButUpdatedAt(a, b) ==
  \A tbl \in TableNames :
     /\ DOMAIN a[tbl] = DOMAIN b[tbl]
     /\ \A id \in DOMAIN a[tbl] :
           WithoutUpdatedAt(a[tbl][id]) = WithoutUpdatedAt(b[tbl][id])

(* C5 as amended: importing a body twice in succession ends in the same    *)
(* store as importing it once on every column but updated_at, which each   *)
(* import sets anew on the rows it updates; no row is added.               *)
ReimportChangesOnlyUpdatedAt == IsSecondImport => SameButUpdatedAt(store, before)

(* a body with the caller's user record and a category, imported twice *)
ReimportedUserAndCategory ==
  /\ IsSecondImport
  /\ req.status = "Committed"
  /\ store # before
  /\ DOMAIN req.doc = {"users", "categories"}
  /\ DOMAIN store.categories # {}

(* C6: importing the document an export returned, as the same user,        *)
(* succeeds and leaves the store as it was (updated_at, which an import    *)
(* sets anew, left aside).                                                 *)
RoundTripRestores ==
  req.kind = "roundtrip" =>
    /\ req.status = "Committed"
    /\ SameButUpdatedAt(store, before)

UpsertedTables ==
  {"categories", "collections", "collection_details", "attachments",
   "posts", "comments"}

RequiredKeys(t) ==
  CASE t = "users"              -> {"id", "username", "email"}
    [] t = "categories"         -> {"id", "user_id", "name"}
    [] t = "collections"        -> {"id", "user_id"}
    [] t = "collection_details" -> {"id", "collection_id", "key", "value"}
    [] t = "attachments"        -> {"id", "user_id", "file_path"}
    [] t = "posts"              -> {"id", "user_id", "collection_id"}
    [] t = "comments"           -> {"id", "post_id", "user_id", "content"}
    [] t = "likes"              -> {"id", "user_id", "asset_id", "asset_type"}

(* the mutable columns of a table with the body's value for each *)
MutableValues(t, d) ==
  CASE t = "categories" ->
         [name |-> d["name"], emoji |-> Get(d, "emoji", NULL),
          knowledge_base_id |-> Get(d, "knowledge_base_id", NULL)]
    [] t = "collections" ->
         [category_id |-> Get(d, "category_id", NULL), tags |-> Get(d, "tags", NULL)]
    [] t = "collection_details" -> [value |-> d["value"]]
    [] t = "attachments" ->
         [url |-> d["file_path"], description |-> Get(d, "filename", "")]
    [] t = "posts" -> [description |-> Get(d, "content", "")]
    [] t = "comments" -> [content |-> d["content"]]

(* no other row holds the unique key the record would take *)
ClashesWithOther(db, t, d) ==
  CASE t = "categories" ->
         LET owner == IF d["id"] \in DOMAIN db.categories
                      THEN db.categories[d["id"]].user_id ELSE d["user_id"]
         IN  \E c \in (DOMAIN db.categories) \ {d["id"]} :
                db.categories[c].user_id = owner /\ db.categories[c].name = d["name"]
    [] t = "collection_details" ->
         LET row == IF d["id"] \in DOMAIN db.collection_details
                    THEN db.collection_details[d["id"]]
                    ELSE [collection_id |-> d["collection_id"], key |-> d["key"]]
         IN  \E c \in (DOMAIN db.collection_details) \ {d["id"]} :
                /\ db.collection_details[c].collection_id = row.collection_id
                /\ db.collection_details[c].key = row.key
    [] OTHER -> FALSE

(* C7: after the import of a body of one category, collection, collection *)
(* detail, attachment, post or comment record that is complete, names      *)
(* parents that exist and clashes with no other row, the record is a row   *)
(* with the body's values in its mutable columns, its updated_at set by    *)
(* this import when the row was there before.                              *)
UpsertByPrimaryKey ==
  (/\ IsImport
   /\ Len(LastOps) = 1
   /\ LastOps[1][1] \in UpsertedTables
   /\ HasAll(LastOps[1][2], RequiredKeys(LastOps[1][1]))
   /\ WellFormed(before, LastOps)
   /\ ~ClashesWithOther(before, LastOps[1][1], LastOps[1][2]))
  =>
    LET t == LastOps[1][1]
        d == LastOps[1][2]
    IN  /\ d["id"] \in DOMAIN store[t]
        /\ LET row == store[t][d["id"]]
               m == MutableValues(t, d)
           IN  /\ \A f \in DOMAIN m : row[f] = m[f]
               /\ (d["id"] \in DOMAIN before[t] /\ "updated_at" \in DOMAIN row)
                     => row.updated_at = clock

IsRenameOf(db, cur, op) ==
  /\ op[1] = "categories"
  /\ HasAll(op[2], RequiredKeys("categories"))
  /\ op[2]["id"] \in DOMAIN db.categories
  /\ op[2]["user_id"] = cur
  /\ db.categories[op[2]["id"]].user_id = cur
  /\ op[2]["name"] # db.categories[op[2]["id"]].name
  /\ \A c \in DOMAIN db.categories :
        ~(db.categories[c].user_id = db.categories[op[2]["id"]].user_id
          /\ db.categories[c].name = op[2]["name"])

IsRepeatedCollection(db, op) ==
  /\ op[1] = "collections"
  /\ HasAll(op[2], {"id", "user_id", "category_id", "tags", "created_at", "updated_at"})
  /\ op[2]["id"] \in DOMAIN db.collections
  /\ op[2]["user_id"] = db.collections[op[2]["id"]].user_id
  /\ op[2]["category_id"] = db.collections[op[2]["id"]].category_id
  /\ op[2]["created_at"] = IsoFormat(db.collections[op[2]["id"]].created_at)
  /\ op[2]["updated_at"] = IsoFormat(db.collections[op[2]["id"]].updated_at)

(* C8: an import whose body renames an existing category K, and otherwise  *)
(* repeats collections as they are, leaves K with the new name and every   *)
(* collection that referenced K in place.                                  *)
CategoryRenameApplies ==
  (/\ IsImport
   /\ \E i \in 1..Len(LastOps) : IsRenameOf(before, req.caller, LastOps[i])
   /\ \A i \in 1..Len(LastOps) :
         IsRenameOf(before, req.caller, LastOps[i]) \/ IsRepeatedCollection(before, LastOps[i]))
  =>
    \A i \in 1..Len(LastOps) :
       IsRenameOf(before, req.caller, LastOps[i]) =>
          LET k == LastOps[i][2]["id"]
          IN  /\ k \in DOMAIN store.categories
              /\ store.categories[k].name = LastOps[i][2]["name"]
              /\ \A c \in DOMAIN before.collections :
                    before.collections[c].category_id = k =>
                       /\ c \in DOMAIN store.collections
                       /\ store.collections[c].category_id = k

IsCompleteLike(db, op) ==
  /\ op[1] = "likes"
  /\ HasAll(op[2], RequiredKeys("likes") \cup {"created_at"})
  /\ op[2]["user_id"] \in DOMAIN db.users
  /\ op[2]["asset_type"] \in AssetType
  /\ op[2]["created_at"].tag = "str"

LikeClashes(db, d) ==
  \/ d["id"] \in DOMAIN db.likes
  \/ \E l \in DOMAIN db.likes :
        /\ db.likes[l].user_id = d["user_id"]
        /\ db.likes[l].asset_id = d["asset_id"]
        /\ db.likes[l].asset_type = d["asset_type"]

(* C9: an import whose body holds like records only, each complete and of  *)
(* an existing user, succeeds; a like that clashes with an existing one on *)
(* its id or on (user_id, asset_id, asset_type) leaves the likes as they   *)
(* are, any other is inserted.                                             *)
LikesInsertIfAbsent ==
  (/\ IsImport
   /\ Len(LastOps) = 1
   /\ IsCompleteLike(before, LastOps[1]))
  =>
    /\ req.status = "Committed"
    /\ LikeClashes(before, LastOps[1][2]) => store.likes = before.likes
    /\ ~LikeClashes(before, LastOps[1][2]) => LastOps[1][2]["id"] \in DOMAIN store.likes

PendingAt(i) ==
  RunFrom(fkEnforced, before, req.caller, SubSeq(LastOps, 1, i - 1), 1, clock).db

Reached == {i \in 1..Len(LastOps) : i <= LastRun.n}

(* C10: import_data reaches the records of a parent type before those of   *)
(* its child types, and when it reaches a record of a well-formed body     *)
(* every parent the record names is in the session already.                *)
(* the session as the i-th record finds it *)
ParentsAreWrittenFirst ==
  IsImport =>
    /\ \A i, j \in 1..Len(LastOps) :
          i < j => LastOps[j][1] \notin ParentTypes(LastOps[i][1])
    /\ WellFormed(before, LastOps) =>
          \A i \in Reached : \A ref \in ParentRefs(LastOps[i]) :
             ref[2] \in DOMAIN PendingAt(i)[ref[1]]

(* a collection reached after the category it names was written by the    *)
(* same import                                                             *)
ChildFoundParentOfSameImport ==
  /\ IsImport
  /\ WellFormed(before, LastOps)
  /\ \E i \in Reached :
        /\ LastOps[i][1] = "collections"
        /\ \E ref \in ParentRefs(LastOps[i]) :
              /\ ref[1] = "categories"
              /\ ref[2] \notin DOMAIN before.categories
              /\ ref[2] \in DOMAIN PendingAt(i).categories

(* a record of the body names a parent that is neither a row of the store *)
(* nor a record of the body                                               *)
DeclaresAbsentParent(db, ops) ==
  \E i \in 1..Len(ops) : \E ref \in ParentRefs(ops[i]) :
     /\ ref[2] \notin DOMAIN db[ref[1]]
     /\ ~\E j \in 1..Len(ops) :
           ops[j][1] = ref[1] /\ Has(ops[j][2], "id") /\ ops[j][2]["id"] = ref[2]

(* C11: where foreign keys are enforced, an import whose body holds a     *)
(* record naming a parent that is neither in the store nor in the body    *)
(* fails and is rolled back.                                              *)
AbsentParentFailsImport ==
  (IsImport /\ fkEnforced /\ DeclaresAbsentParent(before, LastOps)) =>
    /\ req.status = "RolledBack"
    /\ store = before

(* C12: in every store an import leaves, committed or rolled back, no two *)
(* users share a username or an email, no two categories of a user a      *)
(* name, no two details of a collection a key, and no two likes a         *)
(* (user_id, asset_id, asset_type).  (A table being a function of the     *)
(* primary key, no two rows share one.)                                   *)
UniquenessHolds ==
  /\ UsersUnique(store.users)
  /\ CategoriesUnique(store.categories)
  /\ DetailsUnique(store.collection_details)
  /\ LikesUnique(store.likes)

(* a third import in a row was rolled back because its category would     *)
(* have repeated a name the user's categories hold since an earlier one   *)
RepeatedNameWasRefused ==
  /\ IsImport
  /\ clock = 3
  /\ req.status = "RolledBack"
  /\ Len(LastOps) = 1
  /\ LastOps[1][1] = "categories"
  /\ HasAll(LastOps[1][2], RequiredKeys("categories"))
  /\ ClashesWithOther(before, "categories", LastOps[1][2])
  /\ \E c \in DOMAIN before.categories :
        /\ c \notin DOMAIN FreshStore.categories
        /\ c \notin DOMAIN CategoryStore.categories
        /\ before.categories[c].name = LastOps[1][2]["name"]

(* the categories of a store that hold the (user_id, name) of a record *)
SameUserAndName(db, d) ==
  {c \in DOMAIN db.categories :
     /\ db.categories[c].user_id = d["user_id"]
     /\ db.categories[c].name = d["name"]}

(* C13: an import of one complete category record of an existing user,    *)
(* whose id is new and whose (user_id, name) is that of an existing       *)
(* category, succeeds and leaves exactly one category with that           *)
(* (user_id, name).                                                       *)
UniqueClashIsReconciled ==
  (/\ IsImport
   /\ Len(LastOps) = 1
   /\ LastOps[1][1] = "categories"
   /\ HasAll(LastOps[1][2], RequiredKeys("categories"))
   /\ LastOps[1][2]["id"] \notin DOMAIN before.categories
   /\ LastOps[1][2]["user_id"] \in DOMAIN before.users
   /\ SameUserAndName(before, LastOps[1][2]) # {})
  =>
    /\ req.status = "Committed"
    /\ Cardinality(SameUserAndName(store, LastOps[1][2])) = 1

(* C14: after an import that committed, every like names a post or a      *)
(* comment as its kind and its asset_id is the key of an existing row of  *)
(* that kind.                                                             *)
LikeTargetsExist ==
  (IsImport /\ req.status = "Committed") =>
    \A l \in DOMAIN store.likes :
       /\ store.likes[l].asset_type \in AssetType
       /\ store.likes[l].asset_type = "post" =>
             store.likes[l].asset_id \in DOMAIN store.posts
       /\ store.likes[l].asset_type = "comment" =>
             store.likes[l].asset_id \in DOMAIN store.comments

(* an import committed changes to a store that holds likes *)
CommittedBesideLikes ==
  /\ IsImport
  /\ req.status = "Committed"
  /\ store # before
  /\ DOMAIN store.likes # {}
  /\ DOMAIN store.posts # {}

(* C15: after every import, committed or rolled back, each table holds    *)
(* every primary key it held before the call.                             *)
ImportNeverDeletes ==
  IsImport => \A t \in TableNames : DOMAIN before[t] \subseteq DOMAIN store[t]

(* an import added a category to those the store held and updated the     *)
(* caller's row                                                           *)
ImportAddedBesideKeptRows ==
  /\ IsImport
  /\ req.status = "Committed"
  /\ DOMAIN before.categories # {}
  /\ DOMAIN before.categories \subseteq DOMAIN store.categories
  /\ DOMAIN store.categories # DOMAIN before.categories
  /\ store.users # before.users

(* C16: the document export_data returns for user U holds, each once, U's *)
(* own user row, the categories, collections, posts, attachments and      *)
(* likes whose user_id is U, the collection details of those collections  *)
(* and the comments on those posts, and nothing else; the call succeeds   *)
(* whether or not U owns anything.                                        *)
ExportSelectsExactly ==
  req.kind = "export" =>
    LET u == req.caller
        doc == req.doc
    IN  /\ req.status = "OK"
        /\ IdsIn(doc, "users") = {u}
        /\ \A t \in {"categories", "collections", "posts", "attachments", "likes"} :
              IdsIn(doc, t) = {id \in DOMAIN store[t] : store[t][id].user_id = u}
        /\ IdsIn(doc, "collection_details") =
              {id \in DOMAIN store.collection_details :
                 store.collection_details[id].collection_id \in IdsIn(doc, "collections")}
        /\ IdsIn(doc, "comments") =
              {id \in DOMAIN store.comments :
                 store.comments[id].post_id \in IdsIn(doc, "posts")}
        /\ \A t \in TableNames : Len(doc[t]) = Cardinality(IdsIn(doc, t))
        /\ doc["knowledge_documents"] = <<>>

(* the export of a user who owns a category and a like but no collection  *)
(* and no post, from a store that holds details and comments of another   *)
ExportWithEmptyLists ==
  /\ req.kind = "export"
  /\ req.doc["collections"] = <<>>
  /\ req.doc["collection_details"] = <<>>
  /\ req.doc["comments"] = <<>>
  /\ req.doc["categories"] # <<>>
  /\ req.doc["likes"] # <<>>
  /\ DOMAIN store.collection_details # {}
  /\ DOMAIN store.comments # {}

IsExport == req.kind \in {"export", "export_failed"}

(* C17: when a select of export_data raises, the call answers with one    *)
(* HTTP 500 and no document; when none does, with the whole document; and *)
(* in either case the store is the store before the call.                 *)
ExportIsAllOrNothing ==
  IsExport =>
    /\ store = before
    /\ req.kind = "export_failed" =>
          req.status = "Error500" /\ req.doc = NoDocument
    /\ req.kind = "export" =>
          /\ req.status = "OK"
          /\ DOMAIN req.doc = TableNames \cup {"knowledge_documents"}

(* the select of the comments raised after the earlier selects had        *)
(* returned rows                                                          *)
ExportFailedAfterReads ==
  /\ req.kind = "export_failed"
  /\ req.first = "comments"
  /\ OwnedIds(store, "categories", req.caller) # {}
  /\ OwnedIds(store, "collections", req.caller) # {}
  /\ req.doc = NoDocument

(* C18: an import leaves every table unchanged whose top-level key the    *)
(* body lacks; the lists that are present are imported all the same (a    *)
(* body of one new, complete category of an existing user and no other    *)
(* key commits that category); and the empty body commits and changes      *)
(* nothing.                                                               *)
OmittedKeysChangeNothing ==
  IsImport =>
    /\ \A t \in TableNames : t \notin DOMAIN req.doc => store[t] = before[t]
    /\ DOMAIN req.doc = {} => (req.status = "Committed" /\ store = before)
    /\ (/\ DOMAIN req.doc = {"categories"}
        /\ Len(req.doc["categories"]) = 1
        /\ HasAll(req.doc["categories"][1], {"id", "user_id", "name"})
        /\ req.doc["categories"][1]["id"] \notin DOMAIN before.categories
        /\ req.doc["categories"][1]["user_id"] \in DOMAIN before.users
        /\ SameUserAndName(before, req.doc["categories"][1]) = {})
       => /\ req.status = "Committed"
          /\ req.doc["categories"][1]["id"] \in DOMAIN store.categories

(* a body with categories and no users key was committed: a category was  *)
(* added and the users are as they were                                   *)
ImportedWithoutUsersKey ==
  /\ IsImport
  /\ req.status = "Committed"
  /\ "users" \notin DOMAIN req.doc
  /\ "categories" \in DOMAIN req.doc
  /\ store.categories # before.categories
  /\ store.users = before.users

(* C19: whenever an import of a well-formed body changes an existing      *)
(* user, category, collection, collection detail, attachment, post or     *)
(* comment row, the row has an updated_at and it is later than before the *)
(* import; and no such import moves the updated_at of any row backwards.  *)
UpdatedAtAdvances ==
  (IsImport /\ WellFormed(before, LastOps)) =>
    \A t \in {"users"} \cup UpsertedTables : \A id \in DOMAIN before[t] :
       /\ id \in DOMAIN store[t]
       /\ store[t][id] # before[t][id] =>
             /\ "updated_at" \in DOMAIN store[t][id]
             /\ store[t][id].updated_at > before[t][id].updated_at
       /\ "updated_at" \in DOMAIN before[t][id] =>
             store[t][id].updated_at >= before[t][id].updated_at

(* an import runs to its commit or to its except block unless the process *)
(* dies first                                                             *)
SpecStepsFair == SpecSteps /\ WF_vars(WriteNext) /\ WF_vars(CommitTx)

(* the whole try block of the import being followed, on the store it found *)
TxnRun == ImportRun(fkEnforced, before, txn.caller, txn.doc, clock)

(* what the other sessions, the caller and the database after a crash see *)
NoPartialStateShows ==
  txn.phase # "Idle" =>
    /\ txn.phase \in {"Pending", "Writing", "Committed", "RolledBack"}
    /\ txn.phase = "Pending" => (txn.pos = 1 /\ txn.pending = before)
    /\ txn.phase = "Writing" => txn.pos > 1
    /\ InFlight => (store = before /\ txn.ack = "-")
    /\ txn.phase = "RolledBack" => (store = before /\ txn.ack \in {"500", "none"})
    /\ txn.phase = "Committed" =>
          /\ TxnRun.ok
          /\ txn.pos = Len(Ops(txn.doc)) + 1
          /\ store = TxnRun.db
    /\ txn.ack = "200" <=> txn.phase = "Committed"
    /\ txn.seen.read =>
          \E u \in UserIds :
             \/ txn.seen.doc = ExportDoc(before, u)
             \/ txn.phase = "Committed" /\ txn.seen.doc = ExportDoc(TxnRun.db, u)

(* C20: an import goes from Pending through Writing to Committed or to    *)
(* RolledBack and ends in one of the two; success is acknowledged only    *)
(* with every write committed; and the committed store, which is what a   *)
(* concurrent export and the database after a crash show, is the store    *)
(* before the import until the commit and the store with all its writes   *)
(* after it.                                                              *)
ImportEndsIsolated ==
  /\ []NoPartialStateShows
  /\ InFlight ~> (txn.phase \in {"Committed", "RolledBack"})
  /\ [][txn.phase \in {"Committed", "RolledBack"} => txn'.phase = txn.phase]_vars

(* the process died after a write that another session's export, made     *)
(* meanwhile, did not show                                                *)
CrashedAfterUnseenWrite ==
  /\ txn.phase = "RolledBack"
  /\ txn.ack = "none"
  /\ txn.pos >= 2
  /\ txn.pending # before
  /\ store = before
  /\ txn.seen.read
  /\ txn.seen.doc = ExportDoc(before, txn.caller)
  /\ txn.seen.doc # ExportDoc(txn.pending, txn.caller)

BothCommitted == \A s \in Sessions : conc.tx[s].phase = "Committed"

SameCaller == conc.tx[1].caller = conc.tx[2].caller

TxOps(s) == Ops(conc.tx[s].doc)

(* the import of session s alone on a store, and the two imports one      *)
(* after the other, a first then b, from the store both found             *)
AloneOn(db, s) ==
  LET r == ImportRun(fkEnforced, db, conc.tx[s].caller, conc.tx[s].doc, conc.tx[s].now)
  IN  [ok |-> r.ok, db |-> IF r.ok THEN r.db ELSE db]

OneAfterTheOther(a, b) ==
  LET first == AloneOn(before, a)
      second == AloneOn(first.db, b)
  IN  [ok |-> first.ok /\ second.ok, db |-> second.db]

PrimaryKeys(ops) == {<<ops[i][1], ops[i][2]["id"]>> : i \in 1..Len(ops)}

(* the unique values written in the records of a document *)
DocUniqueKeys(ops) ==
  UNION {LET t == ops[i][1]
             d == ops[i][2]
         IN  CASE t = "users" -> {<<"username", d["username"]>>, <<"email", d["email"]>>}
               [] t = "categories" -> {<<"category", d["user_id"], d["name"]>>}
               [] OTHER -> {}
         : i \in 1..Len(ops)}

(* the unique values the rows a document touches hold in a store, and     *)
(* those its records take in the rows they update                         *)
HeldUniqueKeys(db, ops) ==
  UNION {LET t == ops[i][1]
             d == ops[i][2]
         IN  IF d["id"] \notin DOMAIN db[t] THEN {}
             ELSE CASE t = "users" ->
                         {<<"username", db.users[d["id"]].username>>,
                          <<"email", db.users[d["id"]].email>>}
                    [] t = "categories" ->
                         {<<"category", db.categories[d["id"]].user_id,
                            db.categories[d["id"]].name>>,
                          <<"category", db.categories[d["id"]].user_id, d["name"]>>}
                    [] OTHER -> {}
         : i \in 1..Len(ops)}

(* every record of the document of session s is the caller's own *)
OwnRecords(s) ==
  \A i \in 1..Len(TxOps(s)) :
     IF TxOps(s)[i][1] = "users" THEN TxOps(s)[i][2]["id"] = conc.tx[s].caller
     ELSE TxOps(s)[i][2]["user_id"] = conc.tx[s].caller

(* C21: when two concurrent imports of one user, each of the user's own   *)
(* records, both commit and their documents name disjoint primary keys    *)
(* and no common unique value, the store is the one either sequential     *)
(* order of the two imports leaves.                                       *)
DisjointImportsCommute ==
  (/\ BothCommitted
   /\ SameCaller
   /\ OwnRecords(1) /\ OwnRecords(2)
   /\ PrimaryKeys(TxOps(1)) \cap PrimaryKeys(TxOps(2)) = {}
   /\ DocUniqueKeys(TxOps(1)) \cap DocUniqueKeys(TxOps(2)) = {})
  =>
    /\ store = OneAfterTheOther(1, 2).db
    /\ store = OneAfterTheOther(2, 1).db

AllUniqueKeys(s) == DocUniqueKeys(TxOps(s)) \cup HeldUniqueKeys(before, TxOps(s))

(* C21 as amended: when two concurrent imports of one user both commit,   *)
(* their documents name disjoint primary keys, and no unique value that   *)
(* one document writes, or that a row it touches holds before the         *)
(* imports, is written or held in that way by the other, then both        *)
(* sequential orders succeed and the store is the one either leaves.      *)
DisjointImportsCommuteOnFreeKeys ==
  (/\ BothCommitted
   /\ SameCaller
   /\ PrimaryKeys(TxOps(1)) \cap PrimaryKeys(TxOps(2)) = {}
   /\ AllUniqueKeys(1) \cap AllUniqueKeys(2) = {})
  =>
    /\ OneAfterTheOther(1, 2).ok
    /\ OneAfterTheOther(2, 1).ok
    /\ store = OneAfterTheOther(1, 2).db
    /\ store = OneAfterTheOther(2, 1).db

(* both imports wrote and committed, the one that began second first *)
SecondCommittedFirst ==
  /\ BothCommitted
  /\ SameCaller
  /\ conc.order = <<2, 1>>
  /\ PrimaryKeys(TxOps(1)) \cap PrimaryKeys(TxOps(2)) = {}
  /\ AllUniqueKeys(1) \cap AllUniqueKeys(2) = {}
  /\ AloneOn(before, 1).db # before
  /\ AloneOn(before, 2).db # before
  /\ store # AloneOn(before, 1).db
  /\ store # AloneOn(before, 2).db

(* the last record of a document for a primary key *)
LastRecordFor(ops, key) ==
  LET at == {i \in 1..Len(ops) : <<ops[i][1], ops[i][2]["id"]>> = key}
      last == CHOOSE i \in at : \A j \in at : j <= i
  IN  ops[last][2]

(* the row of a primary key holds the mutable fields of the last record   *)
(* the document of session s has for it                                   *)
HoldsFieldsOf(db, s, key) ==
  LET d == LastRecordFor(TxOps(s), key)
      row == db[key[1]][key[2]]
  IN  CASE key[1] = "users" ->
             /\ row.username = d["username"]
             /\ row.email = d["email"]
             /\ row.updated_at = conc.tx[s].now
        [] key[1] = "categories" ->
             /\ row.name = d["name"]
             /\ row.emoji = Get(d, "emoji", NULL)
             /\ row.knowledge_base_id = Get(d, "knowledge_base_id", NULL)
        [] OTHER -> FALSE

(* the primary keys both documents write to a row: a users record other   *)
(* than the caller's, or for a caller without a row, writes nothing       *)
RacedKeys ==
  {key \in PrimaryKeys(TxOps(1)) \cap PrimaryKeys(TxOps(2)) :
     key[1] = "users" =>
        \A s \in Sessions : /\ key[2] = conc.tx[s].caller
                            /\ key[2] \in DOMAIN before.users}

(* C22: when two concurrent imports both commit and both write the same   *)
(* primary key, the row of that key exists once and its mutable fields    *)
(* are those of the document of the import that committed last, each of   *)
(* them, so never some of one document and some of the other.             *)
LastCommittedWins ==
  BothCommitted =>
    \A key \in RacedKeys :
       /\ key[2] \in DOMAIN store[key[1]]
       /\ HoldsFieldsOf(store, conc.order[2], key)

(* both imports committed a write of one category with different names    *)
(* and emojis, and the row holds neither field of the first to commit     *)
RacedOnOneCategory ==
  /\ BothCommitted
  /\ \E key \in RacedKeys :
        /\ key[1] = "categories"
        /\ LastRecordFor(TxOps(1), key)["name"] # LastRecordFor(TxOps(2), key)["name"]
        /\ Get(LastRecordFor(TxOps(1), key), "emoji", NULL)
             # Get(LastRecordFor(TxOps(2), key), "emoji", NULL)
        /\ HoldsFieldsOf(store, conc.order[2], key)
        /\ ~HoldsFieldsOf(store, conc.order[1], key)
        /\ key[2] \in DOMAIN before.categories
        /\ store.categories[key[2]].name # before.categories[key[2]].name

(* C23: a get or delete of an attachment that another user owns answers   *)
(* 404 and leaves the store and the upload directory as they were; a      *)
(* delete by the owner of an attachment removes its record.               *)
AttachmentOwnership ==
  att.op \in {"get", "delete"} =>
    /\ (att.id \in DOMAIN before.attachments /\ ~OwnAttachment(before, att.caller, att.id))
         => (att.status = 404 /\ store = before /\ files = att.files)
    /\ (att.op = "delete" /\ OwnAttachment(before, att.caller, att.id))
         => att.id \notin DOMAIN store.attachments

(* C27: an upload that is not answered 201 leaves the attachments table   *)
(* and the upload directory as they were before the call.                 *)
UploadConsistency ==
  (att.op = "upload" /\ att.status # 201) =>
    /\ store.attachments = before.attachments
    /\ files = att.files

(* a users record of a document carries neither credential of the row *)
HidesCredentials(db, d) ==
  /\ ~Has(d, "password_hash")
  /\ ~Has(d, "avatar_attachment_id")
  /\ \A k \in DOMAIN d \cap {"username", "email", "full_name", "bio", "avatar_url"} :
        /\ d[k] # db.users[d["id"]].password_hash
        /\ db.users[d["id"]].avatar_attachment_id # NULL
             => d[k] # db.users[d["id"]].avatar_attachment_id

(* C24: the document of an export carries no password_hash and no         *)
(* avatar_attachment_id, and after any import the caller's row differs    *)
(* from the one before in username, email and updated_at at most.         *)
CredentialsAreIsolated ==
  /\ req.kind \in {"export", "roundtrip"} =>
        \A i \in 1..Len(req.doc.users) : HidesCredentials(before, req.doc.users[i])
  /\ IsImport =>
        /\ DOMAIN store.users = DOMAIN before.users
        /\ LET old == before.users[req.caller]
               new == store.users[req.caller]
           IN  new = [old EXCEPT !.username = new.username,
                                 !.email = new.email,
                                 !.updated_at = new.updated_at]

(* the caller posted the document of an export and the import committed  *)
(* a change of the caller's row                                           *)
ExportedThenImportedOwnRow ==
  /\ req.kind = "roundtrip"
  /\ req.status = "Committed"
  /\ Len(req.doc.users) = 1
  /\ store.users[req.caller] # before.users[req.caller]

(* lines 228-231 and the set_ of each on_conflict_do_update: the columns  *)
(* an import may change in a row that exists                              *)
UpdateSet(tbl) ==
  CASE tbl = "users" -> {"username", "email", "updated_at"}
    [] tbl = "categories" -> {"name", "emoji", "knowledge_base_id"}
    [] tbl = "collections" -> {"category_id", "tags", "updated_at"}
    [] tbl = "collection_details" -> {"value", "updated_at"}
    [] tbl = "attachments" -> {"url", "description"}
    [] tbl = "posts" -> {"description", "updated_at"}
    [] tbl = "comments" -> {"content", "updated_at"}
    [] tbl = "likes" -> {}

(* C25: after an import, every row that existed before it holds, in every *)
(* column outside the update set of its table, the value it held before:  *)
(* its owner, its parent references and its created_at, whatever the      *)
(* document says.                                                         *)
LinksAreFrozen ==
  IsImport =>
    \A tbl \in TableNames :
       \A id \in (DOMAIN before[tbl]) \cap (DOMAIN store[tbl]) :
          \A f \in (DOMAIN before[tbl][id]) \ UpdateSet(tbl) :
             store[tbl][id][f] = before[tbl][id][f]

(* an import committed the update of a category whose record names       *)
(* another owner than the row has                                         *)
UpdatedCategoryOfOtherOwner ==
  /\ IsImport
  /\ req.status = "Committed"
  /\ \E i \in 1..Len(LastOps) :
        /\ LastOps[i][1] = "categories"
        /\ LET d == LastOps[i][2]
           IN  /\ d["id"] \in DOMAIN before.categories
               /\ d["user_id"] # before.categories[d["id"]].user_id
               /\ store.categories[d["id"]].name = d["name"]
               /\ store.categories[d["id"]].name # before.categories[d["id"]].name
               /\ store.categories[d["id"]].user_id = before.categories[d["id"]].user_id

(* what export writes for a description: the empty string for a null *)
Exported(description) == IF description = NULL THEN "" ELSE description

(* C26: when the caller posts the document of an export, every attachment *)
(* record has file_path = url and filename = description, every post      *)
(* record has content = description and collection_id =                   *)
(* refer_collection_id, a null description written as the empty string,   *)
(* and the rows hold afterwards what the records say: a description that  *)
(* was null is stored as the empty string.                                *)
FieldMappingIsInverse ==
  req.kind = "roundtrip" =>
    /\ \A i \in 1..Len(req.doc.attachments) :
          LET d == req.doc.attachments[i]
              old == before.attachments[d["id"]]
              new == store.attachments[d["id"]]
          IN  /\ d["file_path"] = old.url
              /\ d["filename"] = Exported(old.description)
              /\ new.url = d["file_path"]
              /\ new.description = d["filename"]
    /\ \A i \in 1..Len(req.doc.posts) :
          LET d == req.doc.posts[i]
              old == before.posts[d["id"]]
              new == store.posts[d["id"]]
          IN  /\ d["content"] = Exported(old.description)
              /\ d["collection_id"] = old.refer_collection_id
              /\ new.description = d["content"]
              /\ new.refer_collection_id = d["collection_id"]

====
